---- MODULE Spec2Model ----
(***************************************************************************)
(* Session state orchestration of the media plane (lib/api.js,             *)
(* lib/state.js, lib/mediasoup-worker.js).                                 *)
(*                                                                         *)
(* The three registries of serverState are modelled by their key sets; the *)
(* value stored under a key is the engine object of that id, whose fields  *)
(* are kept in tObj / pObj / cObj.  Every request handler is an async      *)
(* function: the part before its `await` is one action (it runs to the     *)
(* await without interleaving, Node being single threaded), the part after *)
(* the await is a second action, and other handlers and engine events may  *)
(* run in between.                                                         *)
(***************************************************************************)
EXTENDS Integers, FiniteSets, TLC

\* ------------------------------------------------------------------ bounds
MaxTransports == 2
MaxProducers == 2
MaxConsumers == 2
MaxInflight == 2
MaxRequests == 6

TransportIds == 1..MaxTransports
ProducerIds == 1..MaxProducers
ConsumerIds == 1..MaxConsumers
Slots == 1..MaxInflight

\* ------------------------------------------------------- HTTP status codes
Ok == 200
NoContent == 204
BadRequest == 400
NotFound == 404
EngineError == 500
ServiceUnavailable == 503
Unauthorized == 401

\* The key lib/api.js falls back to, and the values of the x-api-key header
\* ("": the header is missing) and of MEDIA_SERVER_API_KEY ("": not set).
DefaultKey == "default-insecure-key"
Headers == {"", DefaultKey, "s3cret"}

VARIABLES
    API_KEY,     \* lib/api.js `API_KEY`
    callers,     \* the x-api-key headers the callers send
    apiKey,      \* the x-api-key header of the request of the last step
    worker,      \* mediasoup-worker.js `worker`: "none", "running" or "died"
    exited,      \* process.exit was called
    router,      \* mediasoup-worker.js `router`: TRUE once createRouter returned
    transports,  \* keys of serverState.transports
    producers,   \* keys of serverState.producers
    consumers,   \* keys of serverState.consumers
    tObj,        \* the engine's Transport objects, by id
    pObj,        \* the engine's Producer objects, by id
    cObj,        \* the engine's Consumer objects, by id
    inflight,    \* handlers suspended at their await, by slot
    pendingPC,   \* consumers with a 'producerclose' notification on its way
    hooks,       \* how often each consumer's close hooks have run
    nreq,        \* the requests received so far
    ev           \* the step taken last: operation, arguments, response

vars == <<API_KEY, callers, apiKey, worker, exited, router, transports, producers, consumers, tObj, pObj,
          cObj, inflight, pendingPC, hooks, nreq, ev>>

registry == <<transports, producers, consumers>>

\* --------------------------------------------------------------- records
NoTransport == [created |-> FALSE, connected |-> FALSE, closed |-> FALSE,
                subscribed |-> FALSE]
NoProducer == [created |-> FALSE, transport |-> 0, closed |-> FALSE, zombie |-> FALSE]
NoConsumer == [created |-> FALSE, transport |-> 0, producer |-> 0, paused |-> FALSE,
               closed |-> FALSE, zombie |-> FALSE]
Idle == [op |-> "idle", t |-> 0, p |-> 0, c |-> 0, ok |-> FALSE]

Request(op, t, p, c, ok) == [op |-> op, t |-> t, p |-> p, c |-> c, ok |-> ok]

\* What a step leaves in ev: the operation, its arguments (0: none), the status
\* of the response it sent (0: none sent, the handler is suspended at its await)
\* and the engine calls it made; for the step after an await, {"rejected"}
\* when the awaited engine call threw.
Event(op, t, p, c, caps, status, engine) ==
    [op |-> op, t |-> t, p |-> p, c |-> c, caps |-> caps, status |-> status,
     engine |-> engine]

\* ------------------------------------------------------------ engine side
\* The object still exists in the worker process: it was not created on an
\* already closed transport and has not been closed since.
transportLive(t) == tObj[t].created /\ ~tObj[t].closed
producerLive(p) == pObj[p].created /\ ~pObj[p].closed /\ ~pObj[p].zombie
consumerLive(c) == cObj[c].created /\ ~cObj[c].closed /\ ~cObj[c].zombie

\* router.canConsume({ producerId, rtpCapabilities }): the router knows the
\* producer and the capabilities fit it.  `caps` is whether they fit.
canConsume(p, caps) == pObj[p].created /\ ~pObj[p].closed /\ caps

\* A getRouter that always has a router to give.
getRouter_always == TRUE

\* getRouter()
getRouter == router

\* A createWebRtcTransport that returns the transport without subscribing.
createWebRtcTransport_noSubscribe ==
    [created |-> TRUE, connected |-> FALSE, closed |-> FALSE, subscribed |-> FALSE]

\* createWebRtcTransport: the transport the engine returned, with the
\* 'dtlsstatechange' listener installed before it is handed to the caller.
createWebRtcTransport ==
    [created |-> TRUE, connected |-> FALSE, closed |-> FALSE, subscribed |-> TRUE]

\* The process is running: nothing runs once process.exit was called.
Running == ~exited /\ UNCHANGED <<worker, exited, API_KEY, callers>>

\* process.env.MEDIA_SERVER_API_KEY || 'default-insecure-key'
configuredKey(env) == IF env = "" THEN DefaultKey ELSE env

\* A middleware that only looks whether the header is there.
apiKeyCheck_presentOnly(k) ==
    IF k = ""
    THEN IF API_KEY = DefaultKey THEN 0 ELSE Unauthorized
    ELSE 0

\* The API key middleware: the status it answers with, 0 when it calls next()
\* (after a warning, if the header is missing or wrong and the key the default).
apiKeyCheck(k) ==
    IF k = "" \/ k # API_KEY
    THEN IF API_KEY = DefaultKey THEN 0 ELSE Unauthorized
    ELSE 0

\* A request arrives and the middleware lets it through to its handler.
Received ==
    /\ Running
    /\ nreq < MaxRequests
    /\ nreq' = nreq + 1
    /\ \E k \in callers : apiKeyCheck(k) = 0 /\ apiKey' = k

\* A step that is not the arrival of a request.
Internal == Running /\ UNCHANGED nreq /\ apiKey' = ""

\* Requests are interchangeable as to the slot they wait in, and the engine's
\* ids as to their value: a new request takes the first free slot, a new
\* object the first id no object has had.
FreeSlot(s) ==
    /\ Received
    /\ inflight[s].op = "idle"
    /\ \A r \in Slots : r < s => inflight[r].op # "idle"

\* An engine that hands out an id again.
NewId_reused(ids, used) == {i \in ids : \A j \in ids : i <= j}

NewId(ids, used) == {i \in ids : i \notin used /\ \A j \in ids : j < i => j \in used}
newTransportId == NewId(TransportIds, {t \in TransportIds : tObj[t].created})
newProducerId == NewId(ProducerIds, {p \in ProducerIds : pObj[p].created})
newConsumerId == NewId(ConsumerIds, {c \in ConsumerIds : cObj[c].created})

Init ==
    /\ API_KEY = configuredKey("")
    /\ callers = {""}
    /\ apiKey = ""
    /\ worker = "none"
    /\ exited = FALSE
    /\ hooks = [c \in ConsumerIds |-> 0]
    /\ router = FALSE
    /\ transports = {}
    /\ producers = {}
    /\ consumers = {}
    /\ tObj = [t \in TransportIds |-> NoTransport]
    /\ pObj = [p \in ProducerIds |-> NoProducer]
    /\ cObj = [c \in ConsumerIds |-> NoConsumer]
    /\ inflight = [s \in Slots |-> Idle]
    /\ pendingPC = {}
    /\ nreq = 0
    /\ ev = Event("init", 0, 0, 0, FALSE, 0, {})

\* startMediasoupWorker up to its second await: the worker is created and
\* its 'died' event subscribed to.
startMediasoupWorker ==
    /\ ~exited
    /\ worker = "none"
    /\ worker' = "running"
    /\ ev' = Event("startMediasoupWorker", 0, 0, 0, FALSE, 0, {"createWorker"})
    /\ apiKey' = ""
    /\ UNCHANGED <<API_KEY, callers, exited, router, registry, tObj, pObj, cObj,
                   inflight, pendingPC, hooks, nreq>>

\* startMediasoupWorker after worker.createRouter returned.
startMediasoupWorker_resume ==
    /\ Internal
    /\ worker = "running"
    /\ ~router
    /\ router' = TRUE
    /\ ev' = Event("startMediasoupWorker_resume", 0, 0, 0, FALSE, 0, {"createRouter"})
    /\ UNCHANGED <<registry, tObj, pObj, cObj, inflight, pendingPC, hooks>>

\* A 'died' handler that logs and goes on.
worker_on_died_logOnly == FALSE

\* worker.on('died'): process.exit(1).
worker_on_died == TRUE

\* The worker process dies and the 'died' handler runs.
died ==
    /\ ~exited
    /\ worker = "running"
    /\ worker' = "died"
    /\ exited' = worker_on_died
    /\ ev' = Event("died", 0, 0, 0, FALSE, 0, {})
    /\ apiKey' = ""
    /\ UNCHANGED <<API_KEY, callers, router, registry, tObj, pObj, cObj, inflight,
                   pendingPC, hooks, nreq>>

\* GET /router_capabilities
router_capabilities ==
    /\ Received
    /\ UNCHANGED hooks
    /\ ev' = Event("router_capabilities", 0, 0, 0, FALSE,
                   IF getRouter THEN Ok ELSE ServiceUnavailable, {})
    /\ UNCHANGED <<router, registry, tObj, pObj, cObj, inflight, pendingPC>>

\* A catch block that answers as if nothing had happened.
catch_status_ok == Ok

\* The status every handler's catch block answers with.
catch_status == EngineError

\* ------------------------------------------------ POST /create_transport
\* Up to the await of createWebRtcTransport: the router check.
create_transport(s) ==
    /\ UNCHANGED hooks
    /\ FreeSlot(s)
    /\ IF ~getRouter
       THEN /\ ev' = Event("create_transport", 0, 0, 0, FALSE, ServiceUnavailable, {})
            /\ UNCHANGED inflight
       ELSE /\ ev' = Event("create_transport", 0, 0, 0, FALSE, 0, {"createWebRtcTransport"})
            /\ inflight' = [inflight EXCEPT ![s] = Request("create", 0, 0, 0, TRUE)]
    /\ UNCHANGED <<router, registry, tObj, pObj, cObj, pendingPC>>

\* The engine returns the transport (its id is new), createWebRtcTransport
\* subscribes to 'dtlsstatechange' and the handler registers the transport;
\* or the engine call throws.
\* A registration that puts back every transport the engine has made so far.
create_transport_set_all(t) == transports \cup {u \in TransportIds : tObj[u].created} \cup {t}

\* serverState.transports.set(transport.id, transport)
create_transport_set(t) == transports \cup {t}

create_transport_resume(s, success) ==
    /\ Internal
    /\ UNCHANGED hooks
    /\ inflight[s].op = "create"
    /\ inflight' = [inflight EXCEPT ![s] = Idle]
    /\ IF success
       THEN \E t \in newTransportId :
              /\ tObj' = [tObj EXCEPT ![t] = createWebRtcTransport]
              /\ transports' = create_transport_set(t)
              /\ ev' = Event("create_transport_resume", t, 0, 0, FALSE, Ok, {})
       ELSE /\ ev' = Event("create_transport_resume", 0, 0, 0, FALSE, catch_status, {"rejected"})
            /\ UNCHANGED <<tObj, transports>>
    /\ UNCHANGED <<router, producers, consumers, pObj, cObj, pendingPC>>

\* ----------------------------------------------- POST /connect_transport
\* The response the handler sends before any await, 0 if it goes on.
connect_transport_check(t) ==
    IF t \notin transports THEN NotFound ELSE 0

connect_transport(s, t) ==
    /\ UNCHANGED hooks
    /\ FreeSlot(s)
    /\ LET status == connect_transport_check(t) IN
       IF status # 0
       THEN /\ ev' = Event("connect_transport", t, 0, 0, FALSE, status, {})
            /\ UNCHANGED inflight
       ELSE /\ ev' = Event("connect_transport", t, 0, 0, FALSE, 0, {"connect"})
            /\ inflight' = [inflight EXCEPT
                              ![s] = Request("connect", t, 0, 0, transportLive(t))]
    /\ UNCHANGED <<router, registry, tObj, pObj, cObj, pendingPC>>

\* transport.connect() returns or throws.  The engine accepts one connect per
\* transport and rejects the rest, and it may reject the DTLS parameters.
connect_transport_resume(s, success) ==
    /\ Internal
    /\ UNCHANGED hooks
    /\ inflight[s].op = "connect"
    /\ inflight' = [inflight EXCEPT ![s] = Idle]
    /\ LET t == inflight[s].t IN
       IF success
       THEN /\ inflight[s].ok
            /\ ~tObj[t].connected
            /\ tObj' = [tObj EXCEPT ![t].connected = TRUE]
            /\ ev' = Event("connect_transport_resume", t, 0, 0, FALSE, NoContent, {})
       ELSE /\ ev' = Event("connect_transport_resume", t, 0, 0, FALSE, catch_status, {"rejected"})
            /\ UNCHANGED tObj
    /\ UNCHANGED <<router, registry, pObj, cObj, pendingPC>>

\* ------------------------------------------------------- POST /produce
produce_check(t) ==
    IF t \notin transports THEN NotFound ELSE 0

produce(s, t) ==
    /\ UNCHANGED hooks
    /\ FreeSlot(s)
    /\ LET status == produce_check(t) IN
       IF status # 0
       THEN /\ ev' = Event("produce", t, 0, 0, FALSE, status, {})
            /\ UNCHANGED inflight
       ELSE /\ ev' = Event("produce", t, 0, 0, FALSE, 0, {"produce"})
            /\ inflight' = [inflight EXCEPT
                              ![s] = Request("produce", t, 0, 0, transportLive(t))]
    /\ UNCHANGED <<router, registry, tObj, pObj, cObj, pendingPC>>

\* transport.produce() returns the producer, which the handler registers, or
\* throws.  The handler does not look at the transport again: a producer whose
\* transport was closed during the await is registered all the same.
produce_resume(s, success) ==
    /\ Internal
    /\ UNCHANGED hooks
    /\ inflight[s].op = "produce"
    /\ inflight' = [inflight EXCEPT ![s] = Idle]
    /\ LET t == inflight[s].t IN
       IF success
       THEN /\ inflight[s].ok
            /\ \E p \in newProducerId :
                 /\ pObj' = [pObj EXCEPT ![p] = [created |-> TRUE, transport |-> t,
                                                 closed |-> FALSE,
                                                 zombie |-> tObj[t].closed]]
                 /\ producers' = producers \cup {p}
                 /\ ev' = Event("produce_resume", t, p, 0, FALSE, Ok, {})
       ELSE /\ ev' = Event("produce_resume", t, 0, 0, FALSE, catch_status, {"rejected"})
            /\ UNCHANGED <<pObj, producers>>
    /\ UNCHANGED <<router, transports, consumers, tObj, cObj, pendingPC>>

\* ------------------------------------------------------- POST /consume
\* consume_check without the canConsume test.
consume_check_noCanConsume(t, p, caps) ==
    IF t \notin transports \/ p \notin producers THEN NotFound ELSE 0

\* consume_check that looks up the transport only.
consume_check_noProducerLookup(t, p, caps) ==
    IF t \notin transports THEN NotFound
    ELSE IF ~canConsume(p, caps) THEN BadRequest
    ELSE 0

\* The response the handler sends before any await, 0 if it goes on: both
\* lookups first, then the router's canConsume.
consume_check(t, p, caps) ==
    IF t \notin transports \/ p \notin producers THEN NotFound
    ELSE IF ~canConsume(p, caps) THEN BadRequest
    ELSE 0

\* The engine calls the handler has made when it sends that response.
consume_calls(status) ==
    IF status = NotFound THEN {}
    ELSE IF status = BadRequest THEN {"canConsume"}
    ELSE {"canConsume", "consume"}

consume(s, t, p, caps) ==
    /\ UNCHANGED hooks
    /\ FreeSlot(s)
    /\ LET status == consume_check(t, p, caps) IN
       /\ ev' = Event("consume", t, p, 0, caps, status, consume_calls(status))
       /\ IF status # 0
          THEN UNCHANGED inflight
          ELSE inflight' = [inflight EXCEPT
                              ![s] = Request("consume", t, p, 0,
                                             transportLive(t) /\ producerLive(p))]
    /\ UNCHANGED <<router, registry, tObj, pObj, cObj, pendingPC>>

\* A consume that asks for a consumer that is not paused.
consume_paused_false == FALSE

\* The `paused` option consume passes to recvTransport.consume.
consume_paused == TRUE

\* recvTransport.consume() returns the consumer (paused), which the handler
\* registers before it subscribes to 'transportclose' and 'producerclose'; or
\* it throws.  Neither the transport nor the producer is looked at again.
\* `notify`: the worker closed the producer after it created the consumer, so
\* a 'producerclose' notification for the new consumer is on its way.  It is
\* when the producer was closed during the await and the consumer's own
\* transport was not; when both were closed, the worker may have dropped the
\* consumer with its transport first.
consume_resume(s, success, notify) ==
    /\ Internal
    /\ UNCHANGED hooks
    /\ inflight[s].op = "consume"
    /\ inflight' = [inflight EXCEPT ![s] = Idle]
    /\ LET t == inflight[s].t
           p == inflight[s].p
       IN
       IF success
       THEN /\ inflight[s].ok
            /\ notify => pObj[p].closed
            /\ (pObj[p].closed /\ ~tObj[t].closed) => notify
            /\ \E c \in newConsumerId :
                 /\ cObj' = [cObj EXCEPT ![c] = [created |-> TRUE, transport |-> t,
                                                 producer |-> p,
                                                 paused |-> consume_paused,
                                                 closed |-> FALSE,
                                                 zombie |-> tObj[t].closed]]
                 /\ consumers' = consumers \cup {c}
                 /\ pendingPC' = IF notify THEN pendingPC \cup {c} ELSE pendingPC
                 /\ ev' = Event("consume_resume", t, p, c, FALSE, Ok, {})
       ELSE /\ ~notify
            /\ ev' = Event("consume_resume", t, p, 0, FALSE, catch_status, {"rejected"})
            /\ UNCHANGED <<cObj, consumers, pendingPC>>
    /\ UNCHANGED <<router, transports, producers, tObj, pObj>>

\* ------------------------------------------------- POST /resume_consumer
\* A lookup that turns away a consumer that is active already.
resume_consumer_check_rejectActive(c) ==
    IF c \notin consumers THEN NotFound
    ELSE IF ~cObj[c].paused THEN BadRequest
    ELSE 0

resume_consumer_check(c) ==
    IF c \notin consumers THEN NotFound ELSE 0

resume_consumer(s, c) ==
    /\ UNCHANGED hooks
    /\ FreeSlot(s)
    /\ LET status == resume_consumer_check(c) IN
       IF status # 0
       THEN /\ ev' = Event("resume_consumer", 0, 0, c, FALSE, status, {})
            /\ UNCHANGED inflight
       ELSE /\ ev' = Event("resume_consumer", 0, 0, c, FALSE, 0, {"resume"})
            /\ inflight' = [inflight EXCEPT
                              ![s] = Request("resume", 0, 0, c, consumerLive(c))]
    /\ UNCHANGED <<router, registry, tObj, pObj, cObj, pendingPC>>

\* consumer.resume() returns or throws.
resume_consumer_resume(s, success) ==
    /\ Internal
    /\ UNCHANGED hooks
    /\ inflight[s].op = "resume"
    /\ inflight' = [inflight EXCEPT ![s] = Idle]
    /\ LET c == inflight[s].c IN
       IF success
       THEN /\ inflight[s].ok
            /\ cObj' = [cObj EXCEPT ![c].paused = FALSE]
            /\ ev' = Event("resume_consumer_resume", 0, 0, c, FALSE, NoContent, {})
       ELSE /\ ev' = Event("resume_consumer_resume", 0, 0, c, FALSE, catch_status, {"rejected"})
            /\ UNCHANGED cObj
    /\ UNCHANGED <<router, registry, tObj, pObj, pendingPC>>

\* ---------------------------------------------------- engine events
\* What transport.close() closes: the transport's producers, its consumers.
producersOn(t) == {p \in ProducerIds : pObj[p].created /\ pObj[p].transport = t}
\* A transport.close() that goes through closed consumers again.
consumersOn_closedToo(t) ==
    {c \in ConsumerIds : cObj[c].created /\ cObj[c].transport = t}

consumersOn(t) ==
    {c \in ConsumerIds : cObj[c].created /\ ~cObj[c].closed /\ cObj[c].transport = t}
\* The consumers the worker tells 'producerclose' when it closes t's producers:
\* those of another transport that it still has.
consumersOfProducersOn(t) ==
    {c \in ConsumerIds : /\ consumerLive(c)
                         /\ cObj[c].transport # t
                         /\ cObj[c].producer \in producersOn(t)
                         /\ producerLive(cObj[c].producer)}

\* Hooks that empty the consumer registry.
consumer_on_close_clear(cs) == {}

\* The consumer's 'transportclose' and 'producerclose' hooks.
consumer_on_close(cs) == consumers \ cs

\* A handler that closes the transport and forgets the registry.
dtlsstatechange_noDelete(t) == transports

\* The transport registry after the 'dtlsstatechange' handler: it deletes t.
dtlsstatechange_delete(t) == transports \ {t}

\* A handler that also drops t's producers from the registry, and leaves their
\* consumers to the consumers' own hooks.
dtlsstatechange_dropProducers(t) == producers \ producersOn(t)

\* The producer registry after the 'dtlsstatechange' handler: it leaves
\* serverState.producers alone.
dtlsstatechange_producers(t) == producers

\* transport.on('dtlsstatechange') with dtlsState 'closed', which the engine
\* reports for a transport whose DTLS handshake was started.  transport.close()
\* closes the transport's producers and consumers, each of these consumers
\* emitting 'transportclose' at once; the consumers other transports have of
\* these producers hear 'producerclose' from the worker later.
dtlsstatechange(t) ==
    /\ Internal
    /\ tObj[t].created /\ tObj[t].connected /\ ~tObj[t].closed
    /\ tObj[t].subscribed
    /\ tObj' = [tObj EXCEPT ![t].closed = TRUE]
    /\ pObj' = [p \in ProducerIds |->
                  IF p \in producersOn(t) THEN [pObj[p] EXCEPT !.closed = TRUE]
                  ELSE pObj[p]]
    /\ cObj' = [c \in ConsumerIds |->
                  IF c \in consumersOn(t) THEN [cObj[c] EXCEPT !.closed = TRUE]
                  ELSE cObj[c]]
    /\ consumers' = consumer_on_close(consumersOn(t))
    /\ hooks' = [c \in ConsumerIds |->
                   IF c \in consumersOn(t) THEN hooks[c] + 1 ELSE hooks[c]]
    /\ pendingPC' = pendingPC \cup consumersOfProducersOn(t)
    /\ transports' = dtlsstatechange_delete(t)
    /\ producers' = dtlsstatechange_producers(t)
    /\ ev' = Event("dtlsstatechange", t, 0, 0, FALSE, 0, {"close"})
    /\ UNCHANGED <<router, inflight>>

\* The worker's 'producerclose' notification reaches consumer c, which closes
\* and emits 'producerclose' unless it is closed already.
producerclose(c) ==
    /\ Internal
    /\ c \in pendingPC
    /\ pendingPC' = pendingPC \ {c}
    /\ IF cObj[c].closed
       THEN UNCHANGED <<cObj, consumers, hooks>>
       ELSE /\ cObj' = [cObj EXCEPT ![c].closed = TRUE]
            /\ consumers' = consumer_on_close({c})
            /\ hooks' = [hooks EXCEPT ![c] = hooks[c] + 1]
    /\ ev' = Event("producerclose", 0, cObj[c].producer, c, FALSE, 0, {})
    /\ UNCHANGED <<router, transports, producers, tObj, pObj, inflight>>

Next ==
    \/ startMediasoupWorker
    \/ startMediasoupWorker_resume
    \/ died
    \/ router_capabilities
    \/ \E s \in Slots : create_transport(s)
    \/ \E s \in Slots, success \in BOOLEAN : create_transport_resume(s, success)
    \/ \E s \in Slots, t \in TransportIds : connect_transport(s, t)
    \/ \E s \in Slots, success \in BOOLEAN : connect_transport_resume(s, success)
    \/ \E s \in Slots, t \in TransportIds : produce(s, t)
    \/ \E s \in Slots, success \in BOOLEAN : produce_resume(s, success)
    \/ \E s \in Slots, t \in TransportIds, p \in ProducerIds, caps \in BOOLEAN :
         consume(s, t, p, caps)
    \/ \E s \in Slots, success \in BOOLEAN, notify \in BOOLEAN :
         consume_resume(s, success, notify)
    \/ \E s \in Slots, c \in ConsumerIds : resume_consumer(s, c)
    \/ \E s \in Slots, success \in BOOLEAN : resume_consumer_resume(s, success)
    \/ \E t \in TransportIds : dtlsstatechange(t)
    \/ \E c \in ConsumerIds : producerclose(c)

Spec == Init /\ [][Next]_vars

\* The service with any MEDIA_SERVER_API_KEY, and callers that send any header.
InitAuth ==
    /\ \E env \in Headers : API_KEY = configuredKey(env)
    /\ callers = Headers
    /\ apiKey = ""
    /\ worker = "none"
    /\ exited = FALSE
    /\ hooks = [c \in ConsumerIds |-> 0]
    /\ router = FALSE
    /\ transports = {}
    /\ producers = {}
    /\ consumers = {}
    /\ tObj = [t \in TransportIds |-> NoTransport]
    /\ pObj = [p \in ProducerIds |-> NoProducer]
    /\ cObj = [c \in ConsumerIds |-> NoConsumer]
    /\ inflight = [s \in Slots |-> Idle]
    /\ pendingPC = {}
    /\ nreq = 0
    /\ ev = Event("init", 0, 0, 0, FALSE, 0, {})

\* The middleware answers 401 and the request reaches no handler.
unauthorized ==
    /\ Running
    /\ nreq < MaxRequests
    /\ nreq' = nreq + 1
    /\ \E k \in callers : apiKeyCheck(k) = Unauthorized /\ apiKey' = k
    /\ ev' = Event("unauthorized", 0, 0, 0, FALSE, Unauthorized, {})
    /\ UNCHANGED <<router, registry, tObj, pObj, cObj, inflight, pendingPC, hooks>>

NextAuth == Next \/ unauthorized

SpecAuth == InitAuth /\ [][NextAuth]_vars

\* The event loop runs what is ready: a notification the worker has sent is
\* delivered, and a handler whose engine call has settled is resumed.
Delivered == \E c \in ConsumerIds : producerclose(c)
Resumed ==
    \E s \in Slots, success \in BOOLEAN :
        \/ create_transport_resume(s, success)
        \/ connect_transport_resume(s, success)
        \/ produce_resume(s, success)
        \/ \E notify \in BOOLEAN : consume_resume(s, success, notify)
        \/ resume_consumer_resume(s, success)

LiveSpec == Spec /\ WF_vars(Delivered) /\ WF_vars(Resumed)

\* ====================================================== properties
\* The transport a producer was created on has been closed.
transportClosedOf(p) == pObj[p].created /\ tObj[pObj[p].transport].closed

\* C1: once the close of a transport has been handled, a consume that names a
\* producer created on it, and a resume_consumer that names a consumer of such
\* a producer, answer 404.
C1_LookupAfterCloseNotFound ==
    /\ (ev.op = "consume" /\ transportClosedOf(ev.p)) => ev.status = NotFound
    /\ (ev.op = "resume_consumer" /\ cObj[ev.c].created
          /\ transportClosedOf(cObj[ev.c].producer)) => ev.status = NotFound

\* C2: no consumer in the registry has a closed source producer or a closed
\* owning transport.
C2_NoConsumerOfClosedOwner ==
    \A c \in consumers :
        /\ ~pObj[cObj[c].producer].closed
        /\ ~tObj[pObj[cObj[c].producer].transport].closed
        /\ ~tObj[cObj[c].transport].closed

\* C3 (I1): the transport of every registered producer is registered.
C3_ProducerTransportRegistered ==
    \A p \in producers : pObj[p].transport \in transports

\* C4 (I4): a closed transport has no producer and no consumer in the registry.
C4_ClosedTransportHasNoDependents ==
    \A t \in TransportIds :
        tObj[t].closed =>
            /\ \A p \in producers : pObj[p].transport # t
            /\ \A c \in consumers : cObj[c].transport # t

\* C5 (I2): the source producer of every registered consumer is registered.
C5_ConsumerProducerRegistered ==
    \A c \in consumers : cObj[c].producer \in producers

\* A consumer is registered, a close has been handled and none is in progress.
C5_Witness ==
    /\ consumers # {}
    /\ \E t \in TransportIds : tObj[t].closed
    /\ pendingPC = {}
    /\ \A s \in Slots : inflight[s].op = "idle"

\* C6: a produce or consume that completes after its transport was closed
\* leaves nothing in the registry.
C6_ClosedDuringCreationCascades ==
    /\ (ev.op = "produce_resume" /\ ev.status = Ok /\ tObj[ev.t].closed)
          => ev.p \notin producers
    /\ (ev.op = "consume_resume" /\ ev.status = Ok /\ tObj[ev.t].closed)
          => ev.c \notin consumers

\* C7: a consume whose transport and producer are registered and whose
\* capabilities canConsume refuses answers 400, calls no engine consume and
\* changes no registry.
C7_UnsupportedConsume ==
    [][(ev'.op = "consume" /\ ev'.t \in transports /\ ev'.p \in producers
          /\ ~canConsume(ev'.p, ev'.caps))
       => (/\ ev'.status = BadRequest
           /\ "consume" \notin ev'.engine
           /\ UNCHANGED <<registry, inflight, tObj, pObj, cObj>>)]_vars

\* A consume on a live producer with capabilities that do not fit got 400.
C7_Witness ==
    /\ ev.op = "consume"
    /\ ev.t \in transports /\ ev.p \in producers
    /\ producerLive(ev.p) /\ ~ev.caps
    /\ ev.status = BadRequest

\* C8: connect_transport, produce, consume and resume_consumer on an id that
\* is not registered answer 404, call nothing of the engine and change no
\* registry; for consume either id.
C8_UnknownIdNotFound ==
    [][(\/ ev'.op \in {"connect_transport", "produce"} /\ ev'.t \notin transports
        \/ ev'.op = "consume" /\ (ev'.t \notin transports \/ ev'.p \notin producers)
        \/ ev'.op = "resume_consumer" /\ ev'.c \notin consumers)
       => (/\ ev'.status = NotFound
           /\ ev'.engine = {}
           /\ UNCHANGED <<registry, inflight, tObj, pObj, cObj>>)]_vars

\* A consume on a registered transport and an unknown producer got 404.
C8_Witness ==
    /\ ev.op = "consume"
    /\ ev.t \in transports /\ ev.p \notin producers
    /\ ev.status = NotFound

\* C9: a closed transport is not in the registry, and a connect_transport,
\* produce or consume that names it answers 404.
C9_CloseBeforeLookup ==
    /\ \A t \in TransportIds : tObj[t].closed => t \notin transports
    /\ (ev.op \in {"connect_transport", "produce", "consume"} /\ tObj[ev.t].closed)
          => ev.status = NotFound

\* A produce named a closed transport.
C9_Witness ==
    /\ ev.op = "produce"
    /\ tObj[ev.t].closed
    /\ ev.status = NotFound

\* C10: a connect_transport on a transport that is connected already is
\* answered by the handler, without a connect call to the engine.
C10_ConnectedRejectedByHandler ==
    (ev.op = "connect_transport" /\ ev.t \in transports /\ tObj[ev.t].connected)
        => (ev.status # 0 /\ "connect" \notin ev.engine)

\* C11: while the router is not initialized, router_capabilities and
\* create_transport answer 503, call nothing of the engine and register no
\* transport.
C11_RouterNotReady ==
    [][(ev'.op \in {"router_capabilities", "create_transport"} /\ ~router)
       => (/\ ev'.status = ServiceUnavailable
           /\ ev'.engine = {}
           /\ UNCHANGED <<registry, inflight, tObj>>)]_vars

\* A create_transport was answered 503 with no router.
C11_Witness ==
    /\ ev.op = "create_transport"
    /\ ~router
    /\ ev.status = ServiceUnavailable

\* C12: the id a successful create_transport returns was not in the transport
\* registry before and is in it after, and every transport in the registry has
\* its 'dtlsstatechange' listener.
C12_CreateRegistersSubscribed ==
    /\ [][(ev'.op = "create_transport_resume" /\ ev'.status = Ok)
          => (ev'.t \notin transports /\ ev'.t \in transports')]_vars
    /\ [](\A t \in transports : tObj[t].subscribed)

\* A create_transport returned a registered, subscribed transport.
C12_Witness ==
    /\ ev.op = "create_transport_resume"
    /\ ev.status = Ok
    /\ ev.t \in transports
    /\ tObj[ev.t].subscribed

C14_PausedUntilResumed ==
    [][\A c \in ConsumerIds :
         /\ (~cObj[c].created /\ cObj'[c].created) => cObj'[c].paused
         /\ (cObj[c].created /\ cObj[c].paused /\ ~cObj'[c].paused)
               => (/\ ev'.op = "resume_consumer_resume"
                   /\ ev'.c = c
                   /\ ev'.status = NoContent)]_vars

\* A resume_consumer succeeded and its consumer is active.
C14_Witness ==
    /\ ev.op = "resume_consumer_resume"
    /\ ev.status = NoContent
    /\ ~cObj[ev.c].paused

\* C15: a resume_consumer on a registered consumer that is active already is
\* passed on like any other, the engine call can succeed while the process
\* runs, and when it does the answer is 204 with the consumer and the registry as they were.
C15_ResumeIdempotent ==
    /\ []((ev.op = "resume_consumer" /\ ev.c \in consumers /\ ~cObj[ev.c].paused)
             => (ev.status = 0 /\ ev.engine = {"resume"}))
    /\ [](\A s \in Slots :
             (~exited /\ inflight[s].op = "resume" /\ inflight[s].ok)
                => ENABLED resume_consumer_resume(s, TRUE))
    /\ [][(/\ ev'.op = "resume_consumer_resume"
           /\ ev'.status = NoContent
           /\ ~cObj[ev'.c].paused)
          => (cObj' = cObj /\ UNCHANGED registry)]_vars

\* A resume_consumer on an active consumer is at its await and can succeed.
C15_Witness ==
    /\ ev.op = "resume_consumer"
    /\ ev.status = 0
    /\ ~cObj[ev.c].paused
    /\ \E s \in Slots :
         /\ inflight[s].op = "resume"
         /\ inflight[s].c = ev.c
         /\ ENABLED resume_consumer_resume(s, TRUE)

\* C16: when the awaited engine call throws, the handler answers 500 and no
\* registry entry and no engine object is added or changed.
C16_EngineErrorNoChange ==
    [][("rejected" \in ev'.engine)
       => (/\ ev'.status = EngineError
           /\ UNCHANGED <<registry, tObj, pObj, cObj>>)]_vars

\* The engine's consume threw and the handler answered 500.
C16_Witness ==
    /\ ev.op = "consume_resume"
    /\ "rejected" \in ev.engine
    /\ ev.status = EngineError

C20_DeathIsFatal ==
    /\ [](worker = "died" => (exited /\ ev.op = "died" /\ ev.status = 0))
    /\ [][worker = "died"
          => (ev' = ev /\ UNCHANGED <<registry, inflight, nreq, tObj, pObj, cObj>>)]_vars

\* The worker died while a request was at its await and a transport registered.
C20_Witness ==
    /\ worker = "died"
    /\ exited
    /\ transports # {}
    /\ \E s \in Slots : inflight[s].op # "idle"

\* Nothing of transport t is left in the registry: not t, no producer created
\* on it, no consumer hosted on it, no consumer of one of its producers.
Cleaned(t) ==
    /\ t \notin transports
    /\ \A p \in producers : pObj[p].transport # t
    /\ \A c \in consumers :
         /\ cObj[c].transport # t
         /\ pObj[cObj[c].producer].transport # t

\* C18: whenever the engine has reported a transport closed, eventually the
\* transport is closed and nothing of it is left in the registry (or the
\* process is gone).
C18_CleanupEventually ==
    \A t \in TransportIds :
        (tObj[t].closed) ~> (exited \/ (tObj[t].closed /\ Cleaned(t)))

\* C17: with a key other than the default configured, a request whose header
\* is missing or different is answered 401, reaches no handler, calls nothing
\* of the engine and changes no registry; with the default key in effect every
\* request, whatever its header, goes on to its handler.
C17_SharedSecret ==
    [][(nreq' # nreq)
       => /\ (API_KEY # DefaultKey /\ (apiKey' = "" \/ apiKey' # API_KEY))
               => (/\ ev'.op = "unauthorized"
                   /\ ev'.status = Unauthorized
                   /\ ev'.engine = {}
                   /\ UNCHANGED <<registry, inflight, tObj, pObj, cObj>>)
          /\ (API_KEY = DefaultKey)
               => (ev'.op # "unauthorized" /\ ev'.status # Unauthorized)]_vars

\* A request that sent the default key to a service with another key got 401.
C17_Witness ==
    /\ API_KEY = "s3cret"
    /\ apiKey = DefaultKey
    /\ ev.op = "unauthorized"
    /\ ev.status = Unauthorized
    /\ transports # {}

\* The entries of the three registries that have nothing to do with transport
\* t are, with their objects, what they were before the step.
FrameOf(t) ==
    /\ \A u \in TransportIds \ {t} :
         /\ (u \in transports') = (u \in transports)
         /\ tObj'[u] = tObj[u]
    /\ \A p \in ProducerIds \ producersOn(t) :
         /\ (p \in producers') = (p \in producers)
         /\ pObj'[p] = pObj[p]
    /\ \A c \in ConsumerIds :
         (cObj[c].transport # t /\ cObj[c].producer \notin producersOn(t))
            => /\ (c \in consumers') = (c \in consumers)
               /\ cObj'[c] = cObj[c]

\* C21: the 'dtlsstatechange' handler of transport t, and the 'producerclose'
\* hooks that follow it, leave alone every transport other than t, every
\* producer not created on t, and every consumer that is neither on t nor a
\* consumer of one of t's producers.
C21_CloseFrame ==
    /\ [][ev'.op = "dtlsstatechange" => FrameOf(ev'.t)]_vars
    /\ [][ev'.op = "producerclose"
          => /\ tObj[pObj[ev'.p].transport].closed
             /\ FrameOf(pObj[ev'.p].transport)]_vars

\* A transport with a producer was closed while another transport, with a
\* producer and a consumer of its own, stays registered.
C21_Witness ==
    /\ ev.op = "dtlsstatechange"
    /\ \E p \in producers : pObj[p].transport = ev.t
    /\ \E u \in transports, q \in producers, c \in consumers :
         /\ u # ev.t
         /\ pObj[q].transport = u
         /\ cObj[c].transport = u
         /\ cObj[c].producer = q
         /\ ~cObj[c].closed

====
